---- MODULE Spec2Model ----
(***************************************************************************)
(* Controller side of threads-es: EsThread (handshake, method proxy, task  *)
(* correlation, drain, terminate) and the EsThreadPool that balances       *)
(* queue() calls over a fixed set of EsThreads.                            *)
(*                                                                         *)
(* One action is one uninterrupted controller turn: a synchronous call, a  *)
(* message event handler, a timer, or the continuation of an await.        *)
(***************************************************************************)
EXTENDS Integers, Sequences, FiniteSets, TLC

\* ---------------------------------------------------------------- bounds
\* Correlation ids minted over the whole run.
MaxTasks == 2
\* Message events the controller handles over the whole run, all units together.
MaxMessages == 3

\* ------------------------------------------------------------- constants
\* Pool size of the "Multiple workers" test.
PoolSize == 2

Threads == 1..PoolSize
UIDs == 1..MaxTasks
NoUID == 0
NoTask == 0

MethodNames == {"helloWorld", "takesTime"}
Results == {"Hello World!", "other"}
ErrorMessages == {"boom"}
NoValue == "-"

\* WorkerMessageType and the record shape of a unit -> controller message.
Msg(type, uid, payload) == [type |-> type, uid |-> uid, payload |-> payload]

\* The method list a unit announces in its Init message.
InitPayloads == {"helloWorld,takesTime"}
MethodNamesOf(payload) ==
    IF payload = "helloWorld" THEN {"helloWorld"} ELSE {"helloWorld", "takesTime"}

InitMsgs == {Msg("init", NoUID, p) : p \in InitPayloads}
TaskResultMsgs == {Msg("taskResult", u, r) : u \in UIDs, r \in Results}
TaskErrorMsgs == {Msg("taskError", u, e) : u \in UIDs, e \in ErrorMessages}
UncaughtErrorMsgs == {Msg("uncaughtError", NoUID, e) : e \in ErrorMessages}
UnknownMsgs == {Msg("bogus", NoUID, NoValue)}

\* Everything a unit can post. A unit runs on its own and is not trusted: the
\* message of an event is drawn when the controller handles the event.
WorkerMessages ==
    InitMsgs \cup TaskResultMsgs \cup TaskErrorMsgs \cup UncaughtErrorMsgs \cup UnknownMsgs

VARIABLES
    spawn,      \* per thread: outcome of EsThread.Spawn: "waiting" | "returned" | "failed"
    hsFirst,    \* per thread: what ended the handshake: "none" | a message type | "timeout"
    methods,    \* per thread: names of the proxy functions in thread.methods
    listeners,  \* per thread: "message" listeners attached to the interface
    chan,       \* per thread: "open" | "closed" (Worker terminated / port closed)
    chanLog,    \* per thread: what the controller did to the channel, in order
    tasks,      \* per thread: the Map<TaskUID, EsTaskPromise>, uid -> handle (its taskUID)
    fut,        \* per uid: the EsTaskPromise minted with that uid
    nextUID,    \* the next correlation id getRandomUID yields
    runsSent,   \* per thread: Run messages posted by the controller
    consumed,   \* per thread: TaskResult/TaskError messages the dispatcher handled
    faults,     \* per thread: "error" events dispatched on the thread
    term,       \* per thread: its terminate() call
    trace,      \* the message events taskResultDispatch handled, in order:
                \* <<thread, task it settled>>, or <<thread, NoTask>>
    evt,        \* the message event taskResultDispatch handled last
    announced,  \* per thread: the method list of the Init message that ended the handshake
    unitRuns,   \* per thread: Run messages posted to the unit, removed when it answers one
    wait        \* the settled() / resolved() / pool.settled() call under observation

vars == <<spawn, hsFirst, methods, listeners, chan, chanLog, tasks, fut, nextUID,
          runsSent, consumed, faults, term, trace, evt, announced, unitRuns, wait>>

\* ------------------------------------------------------------ EsTaskPromise
NoMsg == Msg("none", NoUID, NoValue)

\* st/val: the promise's state and value; owner/via: the thread whose proxy minted it
\* and whether pool.queue() made the call; by: the message it was settled on.
NoFuture == [st |-> "none", val |-> NoValue, owner |-> 0, via |-> "-", by |-> NoMsg]

\* new EsTaskPromise(): pending, carrying its own taskUID.
NewTaskPromise(t, via) ==
    [st |-> "pending", val |-> NoValue, owner |-> t, via |-> via, by |-> NoMsg]

Resolve(f, result) ==
    IF f.st = "pending" THEN [f EXCEPT !.st = "resolved", !.val = result] ELSE f

\* new Error(errorMessage)
ErrorOf(errorMessage) == "Error: " \o errorMessage

Reject(f, error) ==
    IF f.st = "pending" THEN [f EXCEPT !.st = "rejected", !.val = error] ELSE f

Settled(f) == f.st \in {"resolved", "rejected"}

\* ------------------------------------------------------------------ Map
MapGet(m, uid) == IF uid \in DOMAIN m THEN m[uid] ELSE NoTask

\* Faulty variant: set() does not add the entry.
MapSet_dropsEntry(m, uid, task) == m

MapSet(m, uid, task) == [k \in DOMAIN m \cup {uid} |-> IF k = uid THEN task ELSE m[k]]

\* Faulty variant: delete() leaves the entry in the map.
MapDelete_keepsEntry(m, uid) == m

MapDelete(m, uid) == [k \in DOMAIN m \ {uid} |-> m[k]]

MapValues(m) == {m[k] : k \in DOMAIN m}

EmptyMap == [k \in {} |-> NoTask]

\* ------------------------------------------------------------- EsThread
\* Faulty variant: the count is never decremented (it counts the calls made).
numQueuedTasks_countsCalls(t) == runsSent[t]

numQueuedTasks(t) == Cardinality(DOMAIN tasks[t])

\* Faulty variant: settled() waits on nothing.
SettledSnapshot_empty(t) == {}

\* What settled() waits on: the task promises in the map at the call.
SettledSnapshot(t) == MapValues(tasks[t])

\* Promise.allSettled over a snapshot has resolved.
AllSettled(snap) == \A u \in snap : Settled(fut[u])

\* A thread's terminate(): not called, awaiting settled(), or completed.
NoTerminate == [phase |-> "idle", via |-> "-", snap |-> {}, pending |-> {}, poolPending |-> {}]

\* Faulty variant: terminate() does not await settled().
TerminateMayProceed_noAwait(t) == TRUE

\* settled() of the terminate() call on t has resolved.
TerminateMayProceed(t) == AllSettled(term[t].snap)

\* No settled() / resolved() call yet; otherwise kind is the method called, t the
\* thread (0 for the pool), snap what the call awaits, and the rest is what was
\* observed at the call (atCall, calledAt, nextAtCall) and when its promise settled.
NoWait == [kind |-> "none", phase |-> "idle", t |-> 0, snap |-> {}, atCall |-> {},
           calledAt |-> 0, nextAtCall |-> 0, outcome |-> "-", endedAt |-> 0,
           pendingAtEnd |-> {}]

\* Promise.all over a snapshot: rejected with the first rejection, fulfilled when
\* every member is resolved.
PromiseAllOutcome(snap) ==
    IF \E u \in snap : fut[u].st = "rejected" THEN "rejected"
    ELSE IF \A u \in snap : fut[u].st = "resolved" THEN "fulfilled"
    ELSE "pending"

\* Faulty variant: allSettled rejects when a member is rejected.
PromiseAllSettledOutcome_rejects(snap) ==
    IF ~AllSettled(snap) THEN "pending"
    ELSE IF \E u \in snap : fut[u].st = "rejected" THEN "rejected" ELSE "fulfilled"

\* Promise.allSettled over a snapshot: fulfilled once every member is settled.
PromiseAllSettledOutcome(snap) == IF AllSettled(snap) THEN "fulfilled" ELSE "pending"

\* Faulty variant: resolved() waits like settled() and then reports the rejection.
WaitOutcome_resolvedWaitsForAll ==
    IF ~AllSettled(wait.snap) THEN "pending" ELSE PromiseAllOutcome(wait.snap)

\* The state of the promise the observed call returned.
WaitOutcome ==
    IF wait.kind = "resolved" THEN PromiseAllOutcome(wait.snap)
    ELSE PromiseAllSettledOutcome(wait.snap)

\* The continuation of an await runs before the next message event or timer.
MicrotasksDrained ==
    /\ \A t \in Threads : ~(term[t].phase = "awaiting" /\ TerminateMayProceed(t))
    /\ ~(wait.phase = "awaiting" /\ WaitOutcome # "pending")

\* Message events handled so far: the handshakes' and the dispatcher's.
HandledAll ==
    Cardinality({t \in Threads : hsFirst[t] \notin {"none", "timeout"}}) + Len(trace)

Init ==
    /\ spawn = [t \in Threads |-> "waiting"]
    /\ hsFirst = [t \in Threads |-> "none"]
    /\ methods = [t \in Threads |-> {}]
    /\ listeners = [t \in Threads |-> {"initMessageHandler"}]
    /\ chan = [t \in Threads |-> "open"]
    /\ chanLog = [t \in Threads |-> <<>>]
    /\ tasks = [t \in Threads |-> EmptyMap]
    /\ fut = [u \in UIDs |-> NoFuture]
    /\ nextUID = 1
    /\ runsSent = [t \in Threads |-> 0]
    /\ consumed = [t \in Threads |-> 0]
    /\ faults = [t \in Threads |-> 0]
    /\ term = [t \in Threads |-> NoTerminate]
    /\ trace = <<>>
    /\ evt = [t |-> 0, m |-> NoMsg]
    /\ announced = [t \in Threads |-> NoValue]
    /\ unitRuns = [t \in Threads |-> {}]
    /\ wait = NoWait

\* ------------------------------------------------------------ handshake
\* Faulty variant: the default case resolves; only UncaughtError rejects.
InitHandlerOutcome_defaultResolves(m) ==
    IF m.type = "uncaughtError" THEN "reject" ELSE "resolve"

\* initMessageHandler: Init resolves the handshake, anything else rejects it.
InitHandlerOutcome(m) == IF m.type = "init" THEN "resolve" ELSE "reject"

\* Faulty variant: a proxy for every known method, whatever the unit announced.
createMethodsProxy_allNames(m) == MethodNames

\* createMethodsProxy: one proxy function per announced name.
createMethodsProxy(m) == MethodNamesOf(m.payload)

\* The catch block of initThread: terminate the worker / close the port.
InitThreadCatch(t) ==
    /\ chan' = [chan EXCEPT ![t] = "closed"]
    /\ chanLog' = [chanLog EXCEPT ![t] = Append(@, "close")]
    /\ spawn' = [spawn EXCEPT ![t] = "failed"]

\* The first message arrives while initThread awaits the handshake.
HandshakeMessage(t, m) ==
    /\ spawn[t] = "waiting"
    /\ chan[t] = "open"
    /\ "initMessageHandler" \in listeners[t]
    /\ HandledAll < MaxMessages
    /\ MicrotasksDrained
    /\ hsFirst' = [hsFirst EXCEPT ![t] = m.type]
    /\ IF InitHandlerOutcome(m) = "resolve"
       THEN /\ announced' = [announced EXCEPT ![t] = m.payload]
            /\ methods' = [methods EXCEPT ![t] = createMethodsProxy(m)]
            /\ listeners' = [listeners EXCEPT
                   ![t] = (@ \ {"initMessageHandler"}) \cup {"taskResultDispatch"}]
            /\ spawn' = [spawn EXCEPT ![t] = "returned"]
            /\ UNCHANGED <<chan, chanLog>>
       ELSE /\ listeners' = [listeners EXCEPT ![t] = @ \ {"initMessageHandler"}]
            /\ InitThreadCatch(t)
            /\ UNCHANGED <<methods, announced>>
    /\ UNCHANGED <<tasks, fut, nextUID, runsSent, consumed, faults, term, trace, evt,
                   unitRuns, wait>>

\* withTimeout rejects before any message arrived.
HandshakeTimeout(t) ==
    /\ spawn[t] = "waiting"
    /\ MicrotasksDrained
    /\ hsFirst' = [hsFirst EXCEPT ![t] = "timeout"]
    /\ InitThreadCatch(t)
    /\ UNCHANGED <<methods, listeners, tasks, fut, nextUID, runsSent, consumed, faults, term,
                   trace, evt, announced, unitRuns, wait>>

\* ------------------------------------------------------ proxy invocation
\* getRandomUID: a correlation id not used before.
getRandomUID == nextUID

\* The function createProxyFunction returns, called on thread t.
ProxyCall(t, method, via) ==
    /\ spawn[t] = "returned"
    /\ method \in methods[t]
    /\ nextUID <= MaxTasks
    /\ LET uid == getRandomUID IN
         /\ fut' = [fut EXCEPT ![uid] = NewTaskPromise(t, via)]
         /\ tasks' = [tasks EXCEPT ![t] = MapSet(@, uid, uid)]
         /\ unitRuns' = [unitRuns EXCEPT ![t] = @ \cup {uid}]
    /\ runsSent' = [runsSent EXCEPT ![t] = @ + 1]
    /\ nextUID' = nextUID + 1
    /\ UNCHANGED <<spawn, hsFirst, methods, listeners, chan, chanLog, consumed, faults, term,
                   trace, evt, announced, wait>>

\* thread.methods.<method>(...) called directly on a thread.
Invoke(t, method) == ProxyCall(t, method, "thread")

\* ------------------------------------------------------------- dispatch
\* Faulty variant: the lookup ignores the uid and takes any pending task.
TasksGet_anyPending(t, uid) ==
    IF DOMAIN tasks[t] = {} THEN NoTask ELSE tasks[t][CHOOSE k \in DOMAIN tasks[t] : TRUE]

\* this.tasks.get(evt.data.uid)
TasksGet(t, uid) == MapGet(tasks[t], uid)

\* Faulty variant: a result or error for an unknown id is dropped without a throw.
DispatchThrows_dropsUnknownId(t, m) == m.type \notin {"taskResult", "taskError"}

\* What taskResultDispatch throws on.
DispatchThrows(t, m) ==
    CASE m.type \in {"taskResult", "taskError"} -> TasksGet(t, m.uid) = NoTask
      [] OTHER -> TRUE

\* Faulty variant: the TaskError case resolves with the error message.
DispatchSettle_errorResolves(f, m) == Resolve(f, m.payload)

\* The settle entry point the dispatcher calls on the task it found.
DispatchSettle(f, m) ==
    IF m.type = "taskResult" THEN Resolve(f, m.payload) ELSE Reject(f, ErrorOf(m.payload))

\* Faulty variant: the catch block also drops every pending entry of the thread.
DispatchCatch_evictsAll(t) ==
    /\ faults' = [faults EXCEPT ![t] = @ + 1]
    /\ tasks' = [tasks EXCEPT ![t] = EmptyMap]
    /\ UNCHANGED fut

\* The catch block of taskResultDispatch: one "error" event, nothing else.
DispatchCatch(t) ==
    /\ faults' = [faults EXCEPT ![t] = @ + 1]
    /\ UNCHANGED <<tasks, fut>>

\* taskResultDispatch handles a message event.
taskResultDispatch(t, m) ==
    /\ "taskResultDispatch" \in listeners[t]
    /\ chan[t] = "open"
    /\ MicrotasksDrained
    /\ evt' = [t |-> t, m |-> m]
    /\ consumed' = [consumed EXCEPT
           ![t] = IF m.type \in {"taskResult", "taskError"} THEN @ + 1 ELSE @]
    /\ IF DispatchThrows(t, m)
       THEN /\ DispatchCatch(t)
            /\ trace' = Append(trace, <<t, NoTask>>)
       ELSE LET task == TasksGet(t, m.uid) IN
            /\ tasks' = [tasks EXCEPT ![t] = MapDelete(@, task)]
            /\ fut' = [fut EXCEPT ![task] = [DispatchSettle(@, m) EXCEPT !.by = m]]
            /\ trace' = Append(trace, <<t, task>>)
            /\ UNCHANGED faults
    /\ UNCHANGED <<spawn, hsFirst, methods, listeners, chan, chanLog, nextUID, runsSent, term,
                   announced, wait>>

\* A unit that is not trusted posts any message at any time.
MessageEvent(t, m) ==
    /\ HandledAll < MaxMessages
    /\ taskResultDispatch(t, m)
    /\ UNCHANGED unitRuns

\* A unit that runs each Run it received and answers it with one TaskResult.
UnitAnswers(t, uid, result) ==
    /\ uid \in unitRuns[t]
    /\ unitRuns' = [unitRuns EXCEPT ![t] = @ \ {uid}]
    /\ taskResultDispatch(t, Msg("taskResult", uid, result))

\* ------------------------------------------------------------ terminate
\* terminate() up to its await of settled(). A thread is terminated once.
TerminateAwait(t, via) == [NoTerminate EXCEPT
    !.phase = "awaiting", !.via = via, !.snap = SettledSnapshot(t)]

TerminateCall(t) ==
    /\ spawn[t] = "returned"
    /\ term[t].phase = "idle"
    /\ term' = [term EXCEPT ![t] = TerminateAwait(t, "thread")]
    /\ UNCHANGED <<spawn, hsFirst, methods, listeners, chan, chanLog, tasks, fut, nextUID,
                   runsSent, consumed, faults, trace, evt, announced, unitRuns, wait>>

\* Faulty variant: the worker is terminated before the Terminate message is posted.
TerminateOps_closeFirst == <<"close", "postTerminate", "removeListener">>

\* What terminate() does to the channel after the await, in order.
TerminateOps == <<"postTerminate", "removeListener", "close">>

AllPending == UNION {DOMAIN tasks[t] : t \in Threads}

\* Faulty variant: terminate() leaves the listener attached and the channel open.
TerminateClose_leavesOpen(t) == UNCHANGED <<listeners, chan>>

\* removeEventListener, then worker.terminate() / port.close().
TerminateClose(t) ==
    /\ listeners' = [listeners EXCEPT ![t] = @ \ {"taskResultDispatch"}]
    /\ chan' = [chan EXCEPT ![t] = "closed"]

\* terminate() after its await; it records what was pending when it closed.
TerminateFinish(t) ==
    /\ term[t].phase = "awaiting"
    /\ TerminateMayProceed(t)
    /\ chanLog' = [chanLog EXCEPT ![t] = @ \o TerminateOps]
    /\ TerminateClose(t)
    /\ term' = [term EXCEPT ![t] = [@ EXCEPT
           !.phase = "done", !.pending = DOMAIN tasks[t], !.poolPending = AllPending]]
    /\ UNCHANGED <<spawn, hsFirst, methods, tasks, fut, nextUID, runsSent, consumed, faults,
                   trace, evt, announced, unitRuns, wait>>

\* --------------------------------------------------------- EsThreadPool
\* The pool exists once every member's Spawn has returned.
PoolReady == \A t \in Threads : spawn[t] = "returned"

\* queue(): the member with the fewest pending tasks, lowest spawn index first.
PoolPick ==
    CHOOSE t \in Threads :
        \A u \in Threads :
            \/ numQueuedTasks(t) < numQueuedTasks(u)
            \/ numQueuedTasks(t) = numQueuedTasks(u) /\ t <= u

\* pool.queue(worker => worker.methods.<method>(...))
PoolQueue(method) ==
    /\ PoolReady
    /\ ProxyCall(PoolPick, method, "pool")

\* pool.terminate(): every member's terminate() is called in the same turn.
PoolTerminate ==
    /\ PoolReady
    /\ \A t \in Threads : term[t].phase = "idle"
    /\ term' = [t \in Threads |-> TerminateAwait(t, "pool")]
    /\ UNCHANGED <<spawn, hsFirst, methods, listeners, chan, chanLog, tasks, fut, nextUID,
                   runsSent, consumed, faults, trace, evt, announced, unitRuns, wait>>

\* ------------------------------------------------- settled() / resolved()
\* The call up to its await: the promises to wait on are collected at the call.
WaitCall(kind, t, snap, pendingNow) == [NoWait EXCEPT
    !.kind = kind, !.phase = "awaiting", !.t = t, !.snap = snap,
    !.atCall = pendingNow, !.calledAt = Len(trace), !.nextAtCall = nextUID]

\* thread.settled()
SettledCall(t) ==
    /\ spawn[t] = "returned"
    /\ wait.phase = "idle"
    /\ wait' = WaitCall("settled", t, SettledSnapshot(t), DOMAIN tasks[t])
    /\ UNCHANGED <<spawn, hsFirst, methods, listeners, chan, chanLog, tasks, fut, nextUID,
                   runsSent, consumed, faults, term, trace, evt, announced, unitRuns>>

\* What resolved() waits on: the task promises in the map at the call.
ResolvedSnapshot(t) == MapValues(tasks[t])

\* thread.resolved()
ResolvedCall(t) ==
    /\ spawn[t] = "returned"
    /\ wait.phase = "idle"
    /\ wait' = WaitCall("resolved", t, ResolvedSnapshot(t), DOMAIN tasks[t])
    /\ UNCHANGED <<spawn, hsFirst, methods, listeners, chan, chanLog, tasks, fut, nextUID,
                   runsSent, consumed, faults, term, trace, evt, announced, unitRuns>>

\* pool.settled(): every member's settled() is called in the same turn.
PoolSettledCall ==
    /\ PoolReady
    /\ wait.phase = "idle"
    /\ wait' = WaitCall("poolSettled", 0, UNION {SettledSnapshot(t) : t \in Threads},
                        AllPending)
    /\ UNCHANGED <<spawn, hsFirst, methods, listeners, chan, chanLog, tasks, fut, nextUID,
                   runsSent, consumed, faults, term, trace, evt, announced, unitRuns>>

\* The promise of the observed call settles; its continuation sees the pending
\* mappings as they are then.
WaitFinish ==
    /\ wait.phase = "awaiting"
    /\ WaitOutcome # "pending"
    /\ wait' = [wait EXCEPT !.phase = "done", !.outcome = WaitOutcome,
                            !.endedAt = Len(trace), !.pendingAtEnd = AllPending]
    /\ UNCHANGED <<spawn, hsFirst, methods, listeners, chan, chanLog, tasks, fut, nextUID,
                   runsSent, consumed, faults, term, trace, evt, announced, unitRuns>>

\* ------------------------------------------------------- specification
Next ==
    \/ \E t \in Threads, m \in WorkerMessages : HandshakeMessage(t, m)
    \/ \E t \in Threads : HandshakeTimeout(t)
    \/ \E t \in Threads, method \in MethodNames : Invoke(t, method)
    \/ \E t \in Threads, m \in WorkerMessages : MessageEvent(t, m)
    \/ \E t \in Threads : TerminateCall(t)
    \/ \E t \in Threads : TerminateFinish(t)
    \/ \E method \in MethodNames : PoolQueue(method)
    \/ PoolTerminate

Spec == Init /\ [][Next]_vars

\* Threads and a pool whose user drains them with settled() / resolved().
NextDrain ==
    \/ \E t \in Threads, m \in WorkerMessages : HandshakeMessage(t, m)
    \/ \E t \in Threads : HandshakeTimeout(t)
    \/ \E t \in Threads, method \in MethodNames : Invoke(t, method)
    \/ \E t \in Threads, m \in WorkerMessages : MessageEvent(t, m)
    \/ \E method \in MethodNames : PoolQueue(method)
    \/ \E t \in Threads : SettledCall(t)
    \/ \E t \in Threads : ResolvedCall(t)
    \/ PoolSettledCall
    \/ WaitFinish

SpecDrain == Init /\ [][NextDrain]_vars

\* A pool whose units answer every Run they received with one TaskResult.
NextLive ==
    \/ \E t \in Threads, m \in WorkerMessages : HandshakeMessage(t, m)
    \/ \E t \in Threads : HandshakeTimeout(t)
    \/ \E t \in Threads, method \in MethodNames : Invoke(t, method)
    \/ \E method \in MethodNames : PoolQueue(method)
    \/ \E t \in Threads, uid \in UIDs, result \in Results : UnitAnswers(t, uid, result)

\* Every Run posted to a unit is eventually answered and the answer delivered.
RunsAnswered ==
    \A t \in Threads, uid \in UIDs :
        WF_vars(\E result \in Results : UnitAnswers(t, uid, result))

SpecLive == Init /\ [][NextLive]_vars /\ RunsAnswered

\* A unit whose module exposes helloWorld only.
ShortInitMsgs == {Msg("init", NoUID, "helloWorld")}

\* Threads whose units announce different method lists.
NextHandshake ==
    \/ \E t \in Threads, m \in WorkerMessages \cup ShortInitMsgs : HandshakeMessage(t, m)
    \/ \E t \in Threads : HandshakeTimeout(t)
    \/ \E t \in Threads, method \in MethodNames : Invoke(t, method)
    \/ \E t \in Threads, m \in WorkerMessages : MessageEvent(t, m)
    \/ \E t \in Threads : TerminateCall(t)
    \/ \E t \in Threads : TerminateFinish(t)
    \/ \E method \in MethodNames : PoolQueue(method)

SpecHandshake == Init /\ [][NextHandshake]_vars

\* ================================================================ claims
\* The step is a message event handled by taskResultDispatch.
DispatchStep == trace' # trace

\* Tasks a thread's proxies minted that have settled.
SettledOn(t) == {u \in UIDs : fut[u].owner = t /\ Settled(fut[u])}

\* C1: a pending task's future changes only in a message event of its own thread
\* whose message carries the task's id, and it is then resolved with that message's
\* result or rejected with the error of that message's text; an entry leaves the
\* pending mapping only in such an event; nothing else settles or evicts a task.
C1_RoutedByCorrelationId ==
    [][\A u \in UIDs :
        /\ (fut[u].st = "pending" /\ fut'[u] # fut[u]) =>
              /\ DispatchStep
              /\ evt'.t = fut[u].owner
              /\ evt'.m.uid = u
              /\ evt'.m.type \in {"taskResult", "taskError"}
              /\ fut'[u].by = evt'.m
              /\ fut'[u].owner = fut[u].owner
              /\ evt'.m.type = "taskResult" =>
                    fut'[u].st = "resolved" /\ fut'[u].val = evt'.m.payload
              /\ evt'.m.type = "taskError" =>
                    fut'[u].st = "rejected" /\ fut'[u].val = "Error: " \o evt'.m.payload
        /\ \A t \in Threads :
              (u \in DOMAIN tasks[t] /\ u \notin DOMAIN tasks'[t]) =>
                  DispatchStep /\ evt'.t = t /\ evt'.m.uid = u
       ]_vars

\* C1 witness: two tasks of one thread, the one minted later settled first.
C1_Witness ==
    \E u, v \in UIDs :
        /\ u < v
        /\ fut[u].owner = fut[v].owner
        /\ fut[u].st = "pending"
        /\ fut[v].st = "resolved"
        /\ fut[v].val = "other"

\* C2: in every step the pending count of a thread grows by one per proxy call made
\* in the step, shrinks by one per task of the thread settled in the step, at most
\* one of either happens, and the count is never negative.
C2_QueuedTasksAccounting ==
    [][\A t \in Threads :
        LET calls == runsSent'[t] - runsSent[t]
            settles == Cardinality({u \in UIDs :
                           fut[u].owner = t /\ fut[u].st = "pending" /\ Settled(fut'[u])})
        IN  /\ calls \in {0, 1}
            /\ settles \in {0, 1}
            /\ calls + settles <= 1
            /\ numQueuedTasks(t)' = numQueuedTasks(t) + calls - settles
            /\ numQueuedTasks(t)' >= 0
       ]_vars

\* C2 witness: a thread with two calls made, one of them settled, one pending.
C2_Witness ==
    \E t \in Threads :
        /\ runsSent[t] = 2
        /\ Cardinality(SettledOn(t)) = 1
        /\ numQueuedTasks(t) = 1

\* C3: when terminate() posts Terminate, detaches the listener and closes the channel,
\* the thread's pending mapping is empty.
C3_TerminateFindsMappingEmpty ==
    \A t \in Threads : term[t].phase = "done" => term[t].pending = {}

\* C4: a returned thread's channel is untouched until its terminate() has completed;
\* terminate() completes only when every task pending at the call has settled, and it
\* then posts Terminate, detaches the listener and closes the channel, in that order.
C4_TerminateWaitsForPendingAtCall ==
    \A t \in Threads :
        spawn[t] = "returned" =>
            /\ term[t].phase # "done" =>
                  /\ chanLog[t] = <<>>
                  /\ chan[t] = "open"
                  /\ "taskResultDispatch" \in listeners[t]
            /\ term[t].phase = "done" =>
                  /\ \A u \in term[t].snap : fut[u].st \in {"resolved", "rejected"}
                  /\ chanLog[t] = <<"postTerminate", "removeListener", "close">>
                  /\ chan[t] = "closed"
                  /\ "taskResultDispatch" \notin listeners[t]

\* C4 witness: terminate() was called with a task outstanding and has completed.
C4_Witness ==
    \E t \in Threads : term[t].phase = "done" /\ term[t].snap # {} /\ term[t].via = "thread"

\* C5 as stated: when pool.terminate() closes a member's channel, no member of the
\* pool has a pending task.
C5_PoolDrainedBeforeAnyClose ==
    \A t \in Threads :
        (term[t].via = "pool" /\ term[t].phase = "done") => term[t].poolPending = {}

\* C5 amended: when pool.terminate() closes a member's channel, that member has no
\* pending task that was pending when pool.terminate() was called.
C5_MemberDrainsItsOwnTasksAtCall ==
    \A t \in Threads :
        (term[t].via = "pool" /\ term[t].phase = "done") =>
            /\ term[t].snap \cap term[t].pending = {}
            /\ \A u \in term[t].snap : fut[u].owner = t /\ Settled(fut[u])

\* C5 witness: pool.terminate() closed a member that had a task outstanding at the
\* call, while another member still has a pending task.
C5_Witness ==
    \E t \in Threads :
        /\ term[t].via = "pool"
        /\ term[t].phase = "done"
        /\ term[t].snap # {}
        /\ \E u \in term[t].poolPending : fut[u].owner # t

\* C6: Spawn returns only after Init as the first message; after a timeout or any other
\* first message Spawn has failed with the channel closed, no proxy function, no result
\* listener and no task; while the handshake is open there is no proxy and no result
\* listener either.
C6_SpawnAllOrNothing ==
    \A t \in Threads :
        /\ spawn[t] = "returned" => hsFirst[t] = "init"
        /\ hsFirst[t] \notin {"none", "init"} => spawn[t] = "failed"
        /\ hsFirst[t] = "none" => spawn[t] = "waiting"
        /\ spawn[t] = "failed" =>
              /\ chan[t] = "closed"
              /\ chanLog[t] = <<"close">>
        /\ spawn[t] # "returned" =>
              /\ methods[t] = {}
              /\ "taskResultDispatch" \notin listeners[t]
              /\ runsSent[t] = 0
              /\ tasks[t] = EmptyMap

\* C6 witness: one Spawn failed on the timeout, another on a non-Init first message
\* that is not an UncaughtError.
C6_Witness ==
    \E t, u \in Threads :
        /\ spawn[t] = "failed" /\ hsFirst[t] = "timeout"
        /\ spawn[u] = "failed" /\ hsFirst[u] \in {"taskResult", "taskError", "bogus"}

\* C7: a message event of the dispatcher whose message is an UncaughtError, has an
\* unrecognized tag, or is a TaskResult/TaskError for an id not in the thread's pending
\* mapping dispatches exactly one "error" event on that thread; any other message
\* event dispatches none.
C7_FaultsReportedOnce ==
    [][DispatchStep =>
        LET t == evt'.t
            m == evt'.m
            fault == \/ m.type \notin {"taskResult", "taskError"}
                     \/ m.uid \notin DOMAIN tasks[t]
        IN  /\ faults'[t] = faults[t] + (IF fault THEN 1 ELSE 0)
            /\ \A o \in Threads \ {t} : faults'[o] = faults[o]
       ]_vars

\* C7 witness: one thread reported an unknown-id result and then an unknown tag.
C7_Witness ==
    \E t \in Threads :
        /\ faults[t] = 2
        /\ consumed[t] = 1
        /\ evt.t = t
        /\ evt.m.type = "bogus"

\* C8: a message event that raises a fault changes no pending mapping and no future,
\* leaves the channel open and the result listener installed; a thread that has seen
\* faults still settles a task on a later valid message.
C8_FaultLeavesTasksAlone ==
    [][\A t \in Threads :
        faults'[t] # faults[t] =>
            /\ tasks' = tasks
            /\ fut' = fut
            /\ chan'[t] = "open" /\ chan' = chan
            /\ "taskResultDispatch" \in listeners'[t] /\ listeners' = listeners
            /\ spawn' = spawn /\ methods' = methods /\ term' = term
       ]_vars

\* C8 witness: a fault on a thread with a pending task, which a later message settled.
C8_Witness ==
    \E i, j \in 1..Len(trace) :
        /\ i < j
        /\ trace[i][2] = NoTask
        /\ trace[j][2] # NoTask
        /\ trace[j][1] = trace[i][1]
        /\ fut[trace[j][2]].st = "resolved"
        /\ fut[trace[j][2]].owner = trace[i][1]

\* C9: a TaskError event that finds its task rejects that task's future with the
\* error of the carried text and removes that entry only; every other future and
\* every other entry, on this thread and the others, is unchanged, and the thread
\* still has its proxies, its listener and its open channel.
C9_TaskErrorRejectsOnlyItsTask ==
    [][(DispatchStep /\ evt'.m.type = "taskError" /\ evt'.m.uid \in DOMAIN tasks[evt'.t]) =>
        LET t == evt'.t
            x == evt'.m.uid
        IN  /\ fut'[x].st = "rejected"
            /\ fut'[x].val = "Error: " \o evt'.m.payload
            /\ \A u \in UIDs \ {x} : fut'[u] = fut[u]
            /\ DOMAIN tasks'[t] = DOMAIN tasks[t] \ {x}
            /\ \A o \in Threads \ {t} : tasks'[o] = tasks[o]
            /\ \A u \in DOMAIN tasks'[t] : tasks'[t][u] = tasks[t][u]
            /\ spawn' = spawn /\ methods' = methods /\ methods[t] # {}
            /\ chan' = chan /\ listeners' = listeners /\ faults' = faults
       ]_vars

\* C9 witness: a task was rejected and a task minted before it was resolved later.
C9_Witness ==
    \E i, j \in 1..Len(trace) :
        /\ i < j
        /\ trace[i][2] # NoTask /\ fut[trace[i][2]].st = "rejected"
        /\ trace[j][2] # NoTask /\ fut[trace[j][2]].st = "resolved"
        /\ trace[j][2] < trace[i][2]

PendingOn(t) == {u \in UIDs : fut[u].owner = t /\ fut[u].st = "pending"}

C12_PoolSettledFindsEveryMemberIdle ==
    (wait.kind = "poolSettled" /\ wait.phase = "done") => wait.pendingAtEnd = {}

\* C12 amended: pool.settled() never fails and resolves only after every task that
\* was pending on any member at the call has settled; what a member then still
\* reports as pending was invoked after the call.
C12_PoolSettledWaitsForPendingAtCall ==
    (wait.kind = "poolSettled" /\ wait.phase = "done") =>
        /\ wait.outcome = "fulfilled"
        /\ \A u \in wait.atCall : Settled(fut[u])
        /\ wait.atCall \cap wait.pendingAtEnd = {}
        /\ \A u \in wait.pendingAtEnd : u >= wait.nextAtCall

\* C12 witness: pool.settled() resolved after the task pending at the call settled,
\* while a task queued after the call is still pending.
C12_Witness ==
    /\ wait.kind = "poolSettled"
    /\ wait.phase = "done"
    /\ wait.atCall # {}
    /\ wait.endedAt > wait.calledAt
    /\ \E u \in wait.pendingAtEnd : fut[u].via = "pool" /\ fut[u].st = "pending"

\* C13: thread.settled() never fails; it resolves only after every task pending on the
\* thread at the call has been resolved or rejected; called with nothing pending it
\* resolves before any further message event is handled.
C13_SettledWaitsForPendingAtCall ==
    (wait.kind = "settled" /\ wait.phase = "done") =>
        /\ wait.outcome = "fulfilled"
        /\ \A u \in wait.atCall : fut[u].owner = wait.t /\ Settled(fut[u])
        /\ wait.atCall \cap wait.pendingAtEnd = {}
        /\ wait.atCall = {} => wait.endedAt = wait.calledAt

\* C13 witness: settled() resolved after one of the two tasks pending at the call was
\* resolved and the other rejected.
C13_Witness ==
    /\ wait.kind = "settled"
    /\ wait.phase = "done"
    /\ \E u, v \in wait.atCall : fut[u].st = "resolved" /\ fut[v].st = "rejected"

\* C14: thread.resolved() succeeds only when every task pending at the call has been
\* resolved; it fails in the turn of the first TaskError that rejects one of them,
\* whatever the others' state.
C14_ResolvedFailsOnFirstRejection ==
    (wait.kind = "resolved" /\ wait.phase = "done") =>
        /\ wait.outcome \in {"fulfilled", "rejected"}
        /\ wait.outcome = "fulfilled" =>
              \A u \in wait.atCall : fut[u].st = "resolved"
        /\ wait.outcome = "rejected" =>
              /\ wait.endedAt > wait.calledAt
              /\ trace[wait.endedAt][2] \in wait.atCall
              /\ fut[trace[wait.endedAt][2]].st = "rejected"
              /\ fut[trace[wait.endedAt][2]].by.type = "taskError"
              /\ \A i \in (wait.calledAt + 1)..(wait.endedAt - 1) :
                     trace[i][2] \in wait.atCall => fut[trace[i][2]].st = "resolved"

\* C14 witness: resolved() failed on a rejection while another task that was pending
\* at the call was still pending.
C14_Witness ==
    /\ wait.kind = "resolved"
    /\ wait.phase = "done"
    /\ wait.outcome = "rejected"
    /\ wait.atCall \cap wait.pendingAtEnd # {}

\* C15: with units that answer every Run with one TaskResult for the same id, and
\* answers eventually delivered, every future pool.queue() returned is eventually
\* resolved with the result its unit sent for its id, and whenever no future is left
\* pending every member reports no pending task.
C15_QueuedTasksEventuallyResolve ==
    /\ \A u \in UIDs :
          (fut[u].via = "pool" /\ fut[u].st = "pending") ~>
              ( /\ fut[u].st = "resolved"
                /\ fut[u].by.type = "taskResult"
                /\ fut[u].by.uid = u
                /\ fut[u].val = fut[u].by.payload
                /\ u \notin unitRuns[fut[u].owner] )
    /\ []( (\A u \in UIDs : fut[u].st # "pending") =>
              \A t \in Threads : numQueuedTasks(t) = 0 )

\* C15 witness: two queue() calls landed on different members, both futures are
\* resolved and both members report no pending task.
C15_Witness ==
    /\ \A u \in {1, 2} : fut[u].via = "pool" /\ fut[u].st = "resolved"
    /\ fut[1].owner # fut[2].owner
    /\ unitRuns = [t \in Threads |-> {}]
    /\ \A t \in Threads : numQueuedTasks(t) = 0

\* Message events of a thread in which the dispatcher found the task of the carried id.
Matched(t) == {i \in 1..Len(trace) : trace[i][1] = t /\ trace[i][2] # NoTask}

\* C16 as stated: a thread's pending count equals the Run messages it sent minus the
\* TaskResult/TaskError messages its dispatcher consumed, whatever their ids.
C16_PendingIsSentMinusConsumed ==
    \A t \in Threads : numQueuedTasks(t) = runsSent[t] - consumed[t]

\* C16 amended: a thread's pending count equals the Run messages it sent minus the
\* TaskResult/TaskError messages whose id was in the pending mapping; the other
\* TaskResult/TaskError messages consumed were each reported as a fault and left the
\* count as it was.
C16_PendingIsSentMinusMatched ==
    \A t \in Threads :
        /\ numQueuedTasks(t) = runsSent[t] - Cardinality(Matched(t))
        /\ consumed[t] >= Cardinality(Matched(t))
        /\ faults[t] >= consumed[t] - Cardinality(Matched(t))
        /\ numQueuedTasks(t) >= 0

\* C16 witness: a thread with a pending task consumed a result for its task and a
\* result for an id that was not pending.
C16_Witness ==
    \E t \in Threads :
        /\ runsSent[t] = 2
        /\ consumed[t] = 2
        /\ Cardinality(Matched(t)) = 1
        /\ numQueuedTasks(t) = 1

\* C17: a settled future never changes again and an entry that left the pending
\* mapping never comes back; a TaskResult/TaskError event for the id of a task that
\* was settled before changes no future and no pending mapping and dispatches one
\* "error" event on the thread.
C17_NoDoubleSettlement ==
    [][\A u \in UIDs :
        /\ Settled(fut[u]) => fut'[u] = fut[u]
        /\ \A t \in Threads :
              (fut[u].st # "none" /\ u \notin DOMAIN tasks[t]) => u \notin DOMAIN tasks'[t]
        /\ ( /\ DispatchStep
             /\ evt'.m.type \in {"taskResult", "taskError"}
             /\ evt'.m.uid = u
             /\ Settled(fut[u]) )
           => /\ fut' = fut
              /\ tasks' = tasks
              /\ faults'[evt'.t] = faults[evt'.t] + 1
              /\ trace'[Len(trace')] = <<evt'.t, NoTask>>
       ]_vars

\* C17 witness: a task was resolved on the first result for its id, and the last
\* event handled on its thread was a second message for that id, which the future
\* shows no trace of.
C17_Witness ==
    \E u \in UIDs :
        /\ fut[u].st = "resolved"
        /\ evt.t = fut[u].owner
        /\ evt.m.uid = u
        /\ evt.m.type \in {"taskResult", "taskError"}
        /\ evt.m # fut[u].by
        /\ trace[Len(trace)] = <<evt.t, NoTask>>
        /\ faults[evt.t] = 1

\* The method lists that name a method.
ListsNaming(name) ==
    IF name = "helloWorld" THEN {"helloWorld", "helloWorld,takesTime"}
    ELSE {"helloWorld,takesTime"}

\* C18: a thread sends no Run and handles no task message before its unit's Init was
\* received; it has proxy functions only after Init, for exactly the names Init
\* announced; the result listener is attached only once the handshake listener is
\* gone, so a thread has at most one message listener at any time.
C18_HandshakeGatesDispatch ==
    \A t \in Threads :
        /\ hsFirst[t] # "init" =>
              /\ runsSent[t] = 0 /\ unitRuns[t] = {} /\ tasks[t] = EmptyMap
              /\ methods[t] = {}
              /\ "taskResultDispatch" \notin listeners[t]
              /\ \A i \in 1..Len(trace) : trace[i][1] # t
        /\ hsFirst[t] = "init" =>
              /\ \A name \in MethodNames :
                    name \in methods[t] <=> announced[t] \in ListsNaming(name)
              /\ "initMessageHandler" \notin listeners[t]
        /\ Cardinality(listeners[t]) <= 1
        /\ listeners[t] \subseteq {"initMessageHandler", "taskResultDispatch"}

\* C18 witness: a thread whose unit announced helloWorld only has that one proxy,
\* has called it and had the result dispatched, while another thread's unit announced
\* both methods.
C18_Witness ==
    \E t, o \in Threads :
        /\ announced[t] = "helloWorld"
        /\ methods[t] = {"helloWorld"}
        /\ listeners[t] = {"taskResultDispatch"}
        /\ \E i \in 1..Len(trace) : trace[i][1] = t /\ trace[i][2] # NoTask
        /\ methods[o] = {"helloWorld", "takesTime"}

\* C19: from a thread's successful Spawn until its terminate() has completed, its
\* pending mapping holds exactly the futures its proxies returned that are not yet
\* settled, so numQueuedTasks is their number; a settled future of the thread is
\* never in the mapping.
C19_CountIsUnsettledFutures ==
    \A t \in Threads :
        (spawn[t] = "returned" /\ term[t].phase # "done") =>
            /\ DOMAIN tasks[t] = PendingOn(t)
            /\ numQueuedTasks(t) = Cardinality(PendingOn(t))
            /\ numQueuedTasks(t) = runsSent[t] - Cardinality(SettledOn(t))
            /\ SettledOn(t) \cap DOMAIN tasks[t] = {}

\* C19 witness: a thread whose terminate() is waiting has one task settled and one
\* pending, and reports one pending task.
C19_Witness ==
    \E t \in Threads :
        /\ term[t].phase = "awaiting"
        /\ Cardinality(SettledOn(t)) = 1
        /\ Cardinality(PendingOn(t)) = 1
        /\ numQueuedTasks(t) = 1

====
